---------------------------- MODULE Spec2Model ----------------------------
(***************************************************************************)
(* State-machine model of src/src/App.jsx: the in-memory knowledge graph   *)
(* (nodesMap, edges, embeddingsRef), the ingestion run (ingestAll), the    *)
(* metric snapshot (metrics), top-k retrieval and the RAG query            *)
(* (searchGraph / submitRagQuery) and node summarisation                   *)
(* (handleNodeClick / fetchNodeSummary), and the vector math (dot, norm,   *)
(* cosineSim).                                                             *)
(*                                                                         *)
(* One action is one JavaScript task: the code that runs from a click or   *)
(* from the settlement of an awaited provider call up to the next await.   *)
(* State setters queued inside a task are applied in order at its end.     *)
(* A handler reads the React state (nodesMap, edges, the JSON inputs) of   *)
(* the render in which it was created, so a handler suspended at an await  *)
(* keeps the values it captured; embeddingsRef.current is read live.       *)
(*                                                                         *)
(* Similarities and metrics are exact rationals [num, den] with den > 0,   *)
(* and severities are hundredths; the section binary64 gives cosineSim     *)
(* with the rounding of JS numbers, for the calls of SpecMath.             *)
(* Fields that the code only copies from a record to an                    *)
(* entity (published, start_time, end_time, asset_type, start_date,        *)
(* end_date, category, name of events and policies) are left out.          *)
(***************************************************************************)
EXTENDS Integers, Sequences, FiniteSets, Bags

VARIABLES
    apiKey,               \* OPENAI_API_KEY is set (fixed by the build)
    nodesMap,             \* entity store, in key order
    edges,                \* relationship list
    embeddings,           \* embeddingsRef.current, in key order
    error,
    loadingIngest,
    selectedNodeId,
    selectedNodeSummary,
    loadingSummary,
    ragAnswer,
    ragContexts,
    loadingRag,
    ing,                  \* the ingestAll call suspended at getEmbedding
    rag,                  \* the submitRagQuery call suspended at a provider
    summaries,            \* fetchNodeSummary calls suspended at gptPlainText
    json,                 \* papersJson, eventsJson, policiesJson
    oracle,               \* answers a deterministic embedding provider gave
    hist,                 \* store left by the last completed successful run
    calc                  \* a call of cosineSim: its arguments and its result

vars == <<apiKey, json, nodesMap, edges, embeddings, error, loadingIngest,
          selectedNodeId, selectedNodeSummary, loadingSummary,
          ragAnswer, ragContexts, loadingRag, ing, rag, summaries,
          oracle, hist, calc>>

Store == [nodes |-> nodesMap, edges |-> edges, embs |-> embeddings]

--------------------------------------------------------------------------
(* Bounds *)

MaxRecords == 2      \* records in one ingestion input (all collections)
MaxUiRecords == 1    \* the same, in the specification with queries
MaxSummaries == 2    \* summary requests in flight
MaxK == 2            \* largest topK passed to searchGraph directly

(* Program constants *)

RagTopK == 8
SevScale == 100      \* severity 0.9 is 90
NoSeverity == -1     \* severity absent (undefined / null)
DefaultSeverity == 50
DefaultRisk == 30

Undefined == "undefined"
NoNode == "null"

MissingKeyError == "VITE_OPENAI_API_KEY is missing. Add it in a .env file at project root."
PapersInvalid == "Papers JSON is invalid."
EventsInvalid == "Events JSON is invalid."
PoliciesInvalid == "Policies JSON is invalid."
EmbeddingError == "Embedding error: "
RagFallback == "Failed to run RAG over the graph."
SummaryFallback == "Failed to generate node summary."

--------------------------------------------------------------------------
(* Sequences *)

SeqsUpTo(S, n) == UNION {[1..k -> S] : k \in 0..n}

Range(s) == {s[i] : i \in 1..Len(s)}

RECURSIVE SumSeq(_)
SumSeq(s) == IF s = <<>> THEN 0 ELSE Head(s) + SumSeq(Tail(s))

Min(a, b) == IF a < b THEN a ELSE b
Max(a, b) == IF a > b THEN a ELSE b

--------------------------------------------------------------------------
(* Text: a string literal of the model is spelled out by Chars, so that    *)
(* toLowerCase and includes work on its characters.                        *)

Chars(s) ==
    CASE s = "BLACKOUTS" -> <<"B","L","A","C","K","O","U","T","S">>
      [] s = "Solar"     -> <<"S","o","l","a","r">>
      [] s = "Outage"    -> <<"O","u","t","a","g","e">>
      [] s = "storm"     -> <<"s","t","o","r","m">>
      [] s = "blackout"  -> <<"b","l","a","c","k","o","u","t">>
      [] s = "outage"    -> <<"o","u","t","a","g","e">>
      [] s = "why"       -> <<"w","h","y">>
      [] s = " "         -> <<" ">>
      [] OTHER           -> <<>>

LowerChar(c) ==
    CASE c = "A" -> "a" [] c = "B" -> "b" [] c = "C" -> "c" [] c = "K" -> "k"
      [] c = "L" -> "l" [] c = "O" -> "o" [] c = "S" -> "s" [] c = "T" -> "t"
      [] c = "U" -> "u" [] OTHER -> c

toLowerCase(cs) == [i \in 1..Len(cs) |-> LowerChar(cs[i])]

includes(cs, marker) ==
    \E i \in 0..(Len(cs) - Len(marker)) :
        \A j \in 1..Len(marker) : cs[i + j] = marker[j]

RECURSIVE trim(_)
trim(cs) ==
    IF cs = <<>> THEN cs
    ELSE IF Head(cs) = " " THEN trim(Tail(cs))
    ELSE IF cs[Len(cs)] = " " THEN trim(SubSeq(cs, 1, Len(cs) - 1))
    ELSE cs

--------------------------------------------------------------------------
(* Math helpers *)

Rat(n, d) == [num |-> n, den |-> d]
RatLeq(a, b) == a.num * b.den <= b.num * a.den
RatLess(a, b) == a.num * b.den < b.num * a.den

RECURSIVE dotFrom(_, _, _, _)
dotFrom(a, b, i, n) ==
    IF i > n THEN 0 ELSE a[i] * b[i] + dotFrom(a, b, i + 1, n)

dot(a, b) == dotFrom(a, b, 1, Min(Len(a), Len(b)))

Sqrt(s) == CHOOSE r \in 0..s : r * r = s

norm(a) == Sqrt(SumSeq([i \in 1..Len(a) |-> a[i] * a[i]]))

cosineSim(a, b) ==
    LET na == norm(a)
        nb == norm(b)
    IN  IF na = 0 \/ nb = 0 THEN Rat(0, 1)
        ELSE Rat(dot(a, b), na * nb)

--------------------------------------------------------------------------
(* binary64: the arithmetic of a JS number on the values cosineSim meets   *)
(* when the components of the vectors are small integers.  A natural       *)
(* number is the sequence of its binary digits, most significant first,    *)
(* without leading zeros.  A double is [neg, m, e], the value              *)
(* (-1)^neg * m * 2^e with m odd and of at most Precision digits; zero is  *)
(* m = <<>>, e = 0.  Sums and products of small integers are exact, so dot *)
(* and the sum of squares stay integers; Math.sqrt, * and / round to       *)
(* nearest, ties to even.  The exponent range is not modelled: on these    *)
(* values nothing overflows or underflows.                                 *)

Precision == 53

(* TLC evaluates the arguments of an operator when they are first used;    *)
(* Evaluated(v) uses v, so that the state of a loop is a value, not a      *)
(* chain of pending computations, when the next digits are worked on.  A   *)
(* loop over the digits lo..hi is split in two halves, which keeps the     *)
(* depth of the evaluation logarithmic in the number of digits.            *)
Evaluated(v) == v = v

Zeros(n) == [i \in 1..n |-> 0]

Strip(x) ==
    IF \A i \in 1..Len(x) : x[i] = 0 THEN <<>>
    ELSE SubSeq(x, CHOOSE i \in 1..Len(x) : x[i] = 1 /\ \A k \in 1..(i - 1) : x[k] = 0,
                Len(x))

RECURSIVE IntToBits(_)
IntToBits(n) == IF n = 0 THEN <<>> ELSE Append(IntToBits(n \div 2), n % 2)

Pad(x, n) == Zeros(n - Len(x)) \o x

(* x >= y, for x and y without leading zeros *)
Geq(x, y) ==
    IF Len(x) # Len(y) THEN Len(x) > Len(y)
    ELSE IF x = y THEN TRUE
    ELSE x[CHOOSE i \in 1..Len(x) : x[i] # y[i] /\ \A k \in 1..(i - 1) : x[k] = y[k]] = 1

(* One digit of x + y, of x - y, of x * y, of n / d and of the square root  *)
(* of x: st is the state of the loop before the digit.                     *)
AddStep(st, xi, yi) ==
    [carry |-> (xi + yi + st.carry) \div 2,
     acc |-> <<(xi + yi + st.carry) % 2>> \o st.acc]

RECURSIVE AddDigits(_, _, _, _, _)
AddDigits(x, y, lo, hi, st) ==
    IF ~Evaluated(st) \/ lo > hi THEN st
    ELSE IF lo = hi THEN AddStep(st, x[lo], y[lo])
    ELSE AddDigits(x, y, lo, (lo + hi) \div 2,
                   AddDigits(x, y, (lo + hi) \div 2 + 1, hi, st))

AddSame(x, y, st) ==
    IF st.carry = 1 THEN <<1>> \o st.acc ELSE st.acc

Add(x, y) ==
    Strip(AddSame(x, y,
        AddDigits(Pad(x, Max(Len(x), Len(y))), Pad(y, Max(Len(x), Len(y))),
                  1, Max(Len(x), Len(y)), [carry |-> 0, acc |-> <<>>])))

SubStep(st, xi, yi) ==
    [borrow |-> IF xi - yi - st.borrow < 0 THEN 1 ELSE 0,
     acc |-> <<(xi - yi - st.borrow + 2) % 2>> \o st.acc]

RECURSIVE SubDigits(_, _, _, _, _)
SubDigits(x, y, lo, hi, st) ==
    IF ~Evaluated(st) \/ lo > hi THEN st
    ELSE IF lo = hi THEN SubStep(st, x[lo], y[lo])
    ELSE SubDigits(x, y, lo, (lo + hi) \div 2,
                   SubDigits(x, y, (lo + hi) \div 2 + 1, hi, st))

(* x - y for x >= y *)
Sub(x, y) ==
    Strip(SubDigits(x, Pad(y, Len(x)), 1, Len(x), [borrow |-> 0, acc |-> <<>>]).acc)

MulStep(acc, x, yi) ==
    IF yi = 1 THEN Add(IF acc = <<>> THEN acc ELSE Append(acc, 0), x)
    ELSE IF acc = <<>> THEN acc ELSE Append(acc, 0)

RECURSIVE MulDigits(_, _, _, _, _)
MulDigits(x, y, lo, hi, acc) ==
    IF ~Evaluated(acc) \/ lo > hi THEN acc
    ELSE IF lo = hi THEN MulStep(acc, x, y[lo])
    ELSE MulDigits(x, y, (lo + hi) \div 2 + 1, hi,
                   MulDigits(x, y, lo, (lo + hi) \div 2, acc))

Mul(x, y) == MulDigits(x, y, 1, Len(y), <<>>)

(* quotient and remainder of n by d # 0 *)
DivStep(st, ni, d) ==
    IF Geq(Strip(Append(st.r, ni)), d)
    THEN [q |-> Append(st.q, 1), r |-> Sub(Strip(Append(st.r, ni)), d)]
    ELSE [q |-> Append(st.q, 0), r |-> Strip(Append(st.r, ni))]

RECURSIVE DivDigits(_, _, _, _, _)
DivDigits(n, d, lo, hi, st) ==
    IF ~Evaluated(st) \/ lo > hi THEN st
    ELSE IF lo = hi THEN DivStep(st, n[lo], d)
    ELSE DivDigits(n, d, (lo + hi) \div 2 + 1, hi,
                   DivDigits(n, d, lo, (lo + hi) \div 2, st))

DivMod(n, d) ==
    [q |-> Strip(DivDigits(n, d, 1, Len(n), [q |-> <<>>, r |-> <<>>]).q),
     r |-> DivDigits(n, d, 1, Len(n), [q |-> <<>>, r |-> <<>>]).r]

(* floor of the square root of x (of an even number of digits) and the     *)
(* remainder, two digits of x at a time: pair k is x[2k - 1], x[2k]        *)
SqrtStep(st, hi, lo) ==
    IF Geq(Strip(st.r \o <<hi, lo>>), Strip(st.q \o <<0, 1>>))
    THEN [q |-> Append(st.q, 1),
          r |-> Sub(Strip(st.r \o <<hi, lo>>), Strip(st.q \o <<0, 1>>))]
    ELSE [q |-> Append(st.q, 0), r |-> Strip(st.r \o <<hi, lo>>)]

RECURSIVE SqrtPairs(_, _, _, _)
SqrtPairs(x, lo, hi, st) ==
    IF ~Evaluated(st) \/ lo > hi THEN st
    ELSE IF lo = hi THEN SqrtStep(st, x[2 * lo - 1], x[2 * lo])
    ELSE SqrtPairs(x, (lo + hi) \div 2 + 1, hi,
                   SqrtPairs(x, lo, (lo + hi) \div 2, st))

EvenPad(x) == IF Len(x) % 2 = 1 THEN <<0>> \o x ELSE x

ISqrt(x) ==
    [q |-> Strip(SqrtPairs(EvenPad(x), 1, Len(EvenPad(x)) \div 2,
                           [q |-> <<>>, r |-> <<>>]).q),
     r |-> SqrtPairs(EvenPad(x), 1, Len(EvenPad(x)) \div 2,
                     [q |-> <<>>, r |-> <<>>]).r]

Zero == [neg |-> FALSE, m |-> <<>>, e |-> 0]
One == [neg |-> FALSE, m |-> <<1>>, e |-> 0]

(* the double (-1)^neg * m * 2^e with the trailing zeros of m moved into e *)
Canon(neg, m, e) ==
    IF Strip(m) = <<>> THEN Zero
    ELSE [neg |-> neg,
          m |-> Strip(SubSeq(m, 1, CHOOSE i \in 1..Len(m) :
                                      m[i] = 1 /\ \A k \in (i + 1)..Len(m) : m[k] = 0)),
          e |-> e + Len(m) - (CHOOSE i \in 1..Len(m) :
                                 m[i] = 1 /\ \A k \in (i + 1)..Len(m) : m[k] = 0)]

(* The double nearest to m * 2^e, or to a value strictly between m * 2^e   *)
(* and (m + 1) * 2^e when inexact (m then has more than Precision + 1      *)
(* digits); ties go to the even mantissa.                                  *)
Round(neg, m, inexact, e) ==
    IF Len(m) <= Precision THEN Canon(neg, m, e)
    ELSE LET hi == SubSeq(m, 1, Precision)
             guard == m[Precision + 1]
             rest == inexact \/ \E i \in (Precision + 2)..Len(m) : m[i] = 1
             up == guard = 1 /\ (rest \/ hi[Precision] = 1)
         IN  Canon(neg, IF up THEN Add(hi, <<1>>) ELSE hi, e + Len(m) - Precision)

(* Math.sqrt of a natural number s *)
MathSqrt(s) ==
    IF s = 0 THEN Zero
    ELSE LET w == ISqrt(IntToBits(s) \o Zeros(2 * (Precision + 3)))
         IN  Round(FALSE, w.q, w.r # <<>>, -(Precision + 3))

(* x * y of two doubles *)
Times(x, y) == Round(x.neg # y.neg, Mul(x.m, y.m), FALSE, x.e + y.e)

(* n / y of an integer n and a double y # 0 *)
Divide(n, y) ==
    IF n = 0 THEN Zero
    ELSE LET w == DivMod(IntToBits(IF n < 0 THEN -n ELSE n) \o Zeros(2 * Precision + 4),
                         y.m)
         IN  Round((n < 0) # y.neg, w.q, w.r # <<>>, -(2 * Precision + 4) - y.e)

norm64(a) == MathSqrt(SumSeq([i \in 1..Len(a) |-> a[i] * a[i]]))

cosineSim64(a, b) ==
    LET na == norm64(a)
        nb == norm64(b)
    IN  IF na = Zero \/ nb = Zero THEN Zero
        ELSE Divide(dot(a, b), Times(na, nb))

(* Embedding vectors a provider may return: each has an integral norm, so  *)
(* that norm and the product of two norms are exact and cosineSim is the   *)
(* quotient of two integers, kept as a fraction.                           *)
Vectors == {<<1, 0>>, <<0, 1>>, <<0, 0>>, <<-3, 4>>}

--------------------------------------------------------------------------
(* Graph helpers: keyed collections keep the key order of a JS object. *)

Keys(m) == [i \in 1..Len(m) |-> m[i].id]
KeySet(m) == {m[i].id : i \in 1..Len(m)}
Has(m, id) == id \in KeySet(m)
Pos(m, id) == CHOOSE i \in 1..Len(m) : m[i].id = id
Get(m, id) == m[Pos(m, id)]

Put(m, rec) ==
    IF Has(m, rec.id) THEN [m EXCEPT ![Pos(m, rec.id)] = rec]
    ELSE Append(m, rec)

MergeAttrsReplaces(existing, id, attrs) ==
    [k \in {"id"} \cup (DOMAIN attrs) |->
        IF k \in DOMAIN attrs THEN attrs[k] ELSE id]

(* { ...existing, id, ...attrs } *)
MergeAttrs(existing, id, attrs) ==
    [k \in (DOMAIN existing) \cup {"id"} \cup (DOMAIN attrs) |->
        IF k \in DOMAIN attrs THEN attrs[k]
        ELSE IF k = "id" THEN id
        ELSE existing[k]]

NoAttrs == [x \in {} |-> Undefined]
NoEmbedding == <<>>

(* A store is [nodes, edges, embs]; addNode and addEdge return the store   *)
(* after the queued update has been applied.                               *)
addNode(s, id, attrs, embedding, hasEmb) ==
    LET existing == IF Has(s.nodes, id) THEN Get(s.nodes, id) ELSE NoAttrs
        updated == MergeAttrs(existing, id, attrs)
    IN  [s EXCEPT !.nodes = Put(s.nodes, updated),
                  !.embs = IF hasEmb THEN Put(s.embs, [id |-> id, vec |-> embedding])
                           ELSE s.embs]

addEdge(s, source, target, relation) ==
    [s EXCEPT !.edges = Append(s.edges,
        [source |-> source, target |-> target, relation |-> relation])]

EmptyStore == [nodes |-> <<>>, edges |-> <<>>, embs |-> <<>>]

--------------------------------------------------------------------------
(* metrics *)

Nullish(v) == v = NoSeverity

degreeSourceOnly(nodes, es, id) ==
    SumSeq([i \in 1..Len(es) |->
        (IF Has(nodes, es[i].source) /\ es[i].source = id THEN 1 ELSE 0)])

degree(nodes, es, id) ==
    SumSeq([i \in 1..Len(es) |->
        (IF Has(nodes, es[i].source) /\ es[i].source = id THEN 1 ELSE 0)
      + (IF Has(nodes, es[i].target) /\ es[i].target = id THEN 1 ELSE 0)])

baseRiskOneDefault(node) ==
    IF node.type = "Event" /\ "severity" \in DOMAIN node /\ ~Nullish(node.severity)
    THEN node.severity ELSE DefaultSeverity

baseRisk(node) ==
    IF node.type = "Event"
    THEN (IF "severity" \in DOMAIN node /\ ~Nullish(node.severity)
          THEN node.severity ELSE DefaultSeverity)
    ELSE DefaultRisk

(* degree_centrality = deg / N ; risk_score = 0.5 * baseRisk + 0.5 * degreeC *)
metricOf(nodes, es, id) ==
    LET N == Max(Len(nodes) - 1, 1)
        d == degree(nodes, es, id)
        b == baseRisk(Get(nodes, id))
    IN  [id |-> id,
         degree_centrality |-> Rat(d, N),
         risk_score |-> Rat(b * N + SevScale * d, 2 * SevScale * N)]

metricsIncrementalN(nodes, es) ==
    [i \in 1..Len(nodes) |-> metricOf(SubSeq(nodes, 1, i), es, nodes[i].id)]

metrics(nodes, es) == [i \in 1..Len(nodes) |-> metricOf(nodes, es, nodes[i].id)]

--------------------------------------------------------------------------
(* Input records.  A JSON text is [ok, recs]: ok is FALSE when JSON.parse  *)
(* throws, and recs is the parsed array otherwise.                         *)

RecIds == {"1", "2"}
PaperTitles == {"BLACKOUTS", "Solar"}
Regions == {"X"}

(* an outage with severity 0.9, a storm without a severity *)
EventTexts == {[description |-> "Outage", severity |-> 90],
               [description |-> "storm", severity |-> NoSeverity]}

PaperRecs == [id : RecIds, title : PaperTitles]
EventRecs ==
    {[external_id |-> i, description |-> t.description, region |-> r,
      severity |-> t.severity] :
        i \in RecIds, t \in EventTexts, r \in Regions \cup {Undefined}}
PolicyRecs == [external_id : RecIds, jurisdiction : Regions \cup {Undefined}]

Parsed(recs) == [ok |-> TRUE, recs |-> recs]
BadJson == [ok |-> FALSE, recs |-> <<>>]

Total(j) == Len(j.papers.recs) + Len(j.events.recs) + Len(j.policies.recs)

(* The inputs of at most n records over the record sets P, E, L, and the   *)
(* three inputs of which one text is not JSON.                             *)
InputsOver(P, E, L, n) ==
    {j \in [papers : {Parsed(r) : r \in SeqsUpTo(P, n)},
            events : {Parsed(r) : r \in SeqsUpTo(E, n)},
            policies : {Parsed(r) : r \in SeqsUpTo(L, n)}] : Total(j) <= n}
    \cup {[papers |-> BadJson, events |-> Parsed(<<>>), policies |-> Parsed(<<>>)],
          [papers |-> Parsed(<<>>), events |-> BadJson, policies |-> Parsed(<<>>)],
          [papers |-> Parsed(<<>>), events |-> Parsed(<<>>), policies |-> BadJson]}

(* The records of the specification with queries. *)
UiPaperRecs == {[id |-> "1", title |-> "BLACKOUTS"]}
UiEventRecs == {[external_id |-> "1", description |-> "Outage", region |-> "X",
                 severity |-> 90]}
UiPolicyRecs == {}

(* The demo JSON the three text areas start with. *)
DefaultJson ==
    [papers |-> Parsed(<<[id |-> "1", title |-> "Solar"]>>),
     events |-> Parsed(<<[external_id |-> "1", description |-> "Outage",
                          region |-> "X", severity |-> 90]>>),
     policies |-> Parsed(<<[external_id |-> "1", jurisdiction |-> "X"]>>)]

Truthy(str) == str # Undefined /\ str # ""
OrUnknown(str) == IF Truthy(str) THEN str ELSE "unknown"

PaperId(p) == "paper:" \o p.id
EventId(e) == "event:" \o e.external_id
PolicyId(p) == "policy:" \o p.external_id
LocationId(region) == "location:" \o region

--------------------------------------------------------------------------
(* ingestAll: the steps of one run *)

PhaseOrderEventsFirst == <<"events", "papers", "policies">>

PhaseOrder == <<"papers", "events", "policies">>

Coll(j, phase) ==
    CASE PhaseOrder[phase] = "papers" -> j.papers.recs
      [] PhaseOrder[phase] = "events" -> j.events.recs
      [] PhaseOrder[phase] = "policies" -> j.policies.recs

(* the text handed to getEmbedding *)
TextOf(kind, r) ==
    CASE kind = "papers" -> <<r.title, " - ">>
      [] kind = "events" -> <<r.description, ". Region: ", OrUnknown(r.region)>>
      [] kind = "policies" -> <<". Jurisdiction: ", OrUnknown(r.jurisdiction)>>

ingestPaper(s, p, emb) ==
    addNode(s, PaperId(p), [type |-> "Paper", title |-> p.title], emb, TRUE)

ingestEventNoLocation(s, e, emb) ==
    LET nodeId == EventId(e)
        s1 == addNode(s, nodeId,
                  [type |-> "Event", summary |-> e.description, region |-> e.region,
                   severity |-> IF Nullish(e.severity) THEN DefaultSeverity
                                ELSE e.severity],
                  emb, TRUE)
    IN  IF Truthy(e.region)
        THEN addEdge(s1, nodeId, LocationId(e.region), "OCCURS_IN")
        ELSE s1

ingestEvent(s, e, emb) ==
    LET nodeId == EventId(e)
        s1 == addNode(s, nodeId,
                  [type |-> "Event", summary |-> e.description, region |-> e.region,
                   severity |-> IF Nullish(e.severity) THEN DefaultSeverity
                                ELSE e.severity],
                  emb, TRUE)
    IN  IF Truthy(e.region)
        THEN addEdge(addNode(s1, LocationId(e.region),
                         [type |-> "Location", name |-> e.region], NoEmbedding, FALSE),
                     nodeId, LocationId(e.region), "OCCURS_IN")
        ELSE s1

ingestPolicyLinkReversed(s, p, emb) ==
    LET nodeId == PolicyId(p)
        s1 == addNode(s, nodeId,
                  [type |-> "Policy", jurisdiction |-> p.jurisdiction], emb, TRUE)
    IN  IF Truthy(p.jurisdiction)
        THEN addEdge(addNode(s1, LocationId(p.jurisdiction),
                         [type |-> "Location", name |-> p.jurisdiction],
                         NoEmbedding, FALSE),
                     LocationId(p.jurisdiction), nodeId, "APPLIES_TO")
        ELSE s1

ingestPolicy(s, p, emb) ==
    LET nodeId == PolicyId(p)
        s1 == addNode(s, nodeId,
                  [type |-> "Policy", jurisdiction |-> p.jurisdiction], emb, TRUE)
    IN  IF Truthy(p.jurisdiction)
        THEN addEdge(addNode(s1, LocationId(p.jurisdiction),
                         [type |-> "Location", name |-> p.jurisdiction],
                         NoEmbedding, FALSE),
                     nodeId, LocationId(p.jurisdiction), "APPLIES_TO")
        ELSE s1

ingestRecord(s, kind, r, emb) ==
    CASE kind = "papers" -> ingestPaper(s, r, emb)
      [] kind = "events" -> ingestEvent(s, r, emb)
      [] kind = "policies" -> ingestPolicy(s, r, emb)

mentionsCaseSensitive(p, e) ==
    /\ includes(Chars(p.title), Chars("blackout"))
    /\ includes(Chars(e.description), Chars("outage"))

mentions(p, e) ==
    /\ includes(toLowerCase(Chars(p.title)), Chars("blackout"))
    /\ includes(toLowerCase(Chars(e.description)), Chars("outage"))

(* simple keyword-based link: for p of papers, for e of events *)
RECURSIVE deriveLinks(_, _, _, _)
deriveLinks(s, papers, events, k) ==
    IF k > Len(papers) * Len(events) THEN s
    ELSE LET p == papers[((k - 1) \div Len(events)) + 1]
             e == events[((k - 1) % Len(events)) + 1]
         IN  deriveLinks(IF mentions(p, e)
                         THEN addEdge(s, PaperId(p), EventId(e), "MENTIONS_EVENT")
                         ELSE s,
                         papers, events, k + 1)

Idle == [pc |-> "idle", phase |-> 1, idx |-> 1]

(* Runs the loops from record idx of the phase up to the next getEmbedding *)
(* call, or to the end of the try block.                                   *)
RECURSIVE runFrom(_, _, _, _)
runFrom(s, j, phase, idx) ==
    IF phase > Len(PhaseOrder)
    THEN [store |-> deriveLinks(s, j.papers.recs, j.events.recs, 1), ing |-> Idle]
    ELSE IF idx <= Len(Coll(j, phase))
    THEN [store |-> s, ing |-> [pc |-> "embed", phase |-> phase, idx |-> idx]]
    ELSE runFrom(s, j, phase + 1, 1)

parseError(j) ==
    IF ~j.papers.ok THEN PapersInvalid
    ELSE IF ~j.events.ok THEN EventsInvalid
    ELSE IF ~j.policies.ok THEN PoliciesInvalid
    ELSE ""

resetGraphKeepsNodes ==
    [nodes |-> nodesMap, edges |-> <<>>, embs |-> <<>>,
     selectedNodeId |-> NoNode, selectedNodeSummary |-> "",
     ragAnswer |-> "", ragContexts |-> <<>>]

resetGraphKeepsEmbeddings ==
    [nodes |-> <<>>, edges |-> <<>>, embs |-> embeddings,
     selectedNodeId |-> NoNode, selectedNodeSummary |-> "",
     ragAnswer |-> "", ragContexts |-> <<>>]

resetGraphKeepsEdges ==
    [nodes |-> <<>>, edges |-> edges, embs |-> <<>>,
     selectedNodeId |-> NoNode, selectedNodeSummary |-> "",
     ragAnswer |-> "", ragContexts |-> <<>>]

resetGraphKeepsContexts ==
    [nodes |-> <<>>, edges |-> <<>>, embs |-> <<>>,
     selectedNodeId |-> NoNode, selectedNodeSummary |-> "",
     ragAnswer |-> "", ragContexts |-> ragContexts]

(* The values resetGraph gives the seven pieces of state it clears. *)
resetGraph ==
    [nodes |-> <<>>,
     edges |-> <<>>,
     embs |-> <<>>,
     selectedNodeId |-> NoNode,
     selectedNodeSummary |-> "",
     ragAnswer |-> "",
     ragContexts |-> <<>>]

SetStore(s) ==
    /\ nodesMap' = s.nodes
    /\ edges' = s.edges
    /\ embeddings' = s.embs

ingestDisabledNever == FALSE

(* <button onClick={ingestAll} disabled={loadingIngest}> *)
ingestDisabled == loadingIngest

(* Click on "Ingest / Rebuild Graph" with the text areas holding inp. *)
ingestAll(inp) ==
    /\ ~ingestDisabled
    /\ json' = inp
    /\ IF ~apiKey
       THEN /\ error' = MissingKeyError
            /\ UNCHANGED <<nodesMap, edges, embeddings, loadingIngest, ing,
                           selectedNodeId, selectedNodeSummary, ragAnswer, ragContexts>>
       ELSE LET g == resetGraph
                s0 == [nodes |-> g.nodes, edges |-> g.edges, embs |-> g.embs]
            IN  /\ selectedNodeId' = g.selectedNodeId
                /\ selectedNodeSummary' = g.selectedNodeSummary
                /\ ragAnswer' = g.ragAnswer
                /\ ragContexts' = g.ragContexts
                /\ IF parseError(inp) # ""
                   THEN /\ SetStore(s0)
                        /\ error' = parseError(inp)
                        /\ loadingIngest' = FALSE
                        /\ ing' = Idle
                   ELSE LET c == runFrom(s0, inp, 1, 1)
                        IN  /\ SetStore(c.store)
                            /\ error' = ""
                            /\ loadingIngest' = (c.ing.pc = "embed")
                            /\ ing' = c.ing
    /\ UNCHANGED <<apiKey, loadingSummary, loadingRag, rag, summaries>>

(* getEmbedding returns emb for the record the run waits on. *)
ingestEmbedded(emb) ==
    /\ ing.pc = "embed"
    /\ LET kind == PhaseOrder[ing.phase]
           r == Coll(json, ing.phase)[ing.idx]
           c == runFrom(ingestRecord(Store, kind, r, emb), json, ing.phase, ing.idx + 1)
       IN  /\ SetStore(c.store)
           /\ ing' = c.ing
           /\ loadingIngest' = (c.ing.pc = "embed")
    /\ UNCHANGED <<apiKey, json, error, selectedNodeId, selectedNodeSummary,
                   loadingSummary, ragAnswer, ragContexts, loadingRag, rag, summaries>>

ingestFailedRollsBack ==
    /\ ing.pc = "embed"
    /\ error' = EmbeddingError
    /\ loadingIngest' = FALSE
    /\ ing' = Idle
    /\ SetStore(EmptyStore)
    /\ UNCHANGED <<apiKey, json, selectedNodeId,
                   selectedNodeSummary, loadingSummary, ragAnswer, ragContexts,
                   loadingRag, rag, summaries>>

(* getEmbedding throws: catch, finally. *)
ingestFailed ==
    /\ ing.pc = "embed"
    /\ error' = EmbeddingError
    /\ loadingIngest' = FALSE
    /\ ing' = Idle
    /\ UNCHANGED <<apiKey, json, nodesMap, edges, embeddings, selectedNodeId,
                   selectedNodeSummary, loadingSummary, ragAnswer, ragContexts,
                   loadingRag, rag, summaries>>

--------------------------------------------------------------------------
(* node inspector *)

GenTexts == {"text"}

(* The text gptPlainText returns for the prompt fetchNodeSummary builds    *)
(* for the node id ("Node id: ...").                                       *)
SummaryText(id) == "Summary of " \o id

(* Click on a rendered node: handleNodeClick, then fetchNodeSummary up to  *)
(* its await of gptPlainText.                                              *)
handleNodeClick(id) ==
    /\ Has(nodesMap, id)
    /\ BagCardinality(summaries) < MaxSummaries
    /\ selectedNodeId' = id
    /\ selectedNodeSummary' = ""
    /\ loadingSummary' = TRUE
    /\ summaries' = summaries (+) SetToBag({id})
    /\ UNCHANGED <<apiKey, json, nodesMap, edges, embeddings, error, loadingIngest,
                   ragAnswer, ragContexts, loadingRag, ing, rag>>

summaryGeneratedCachesOnNode(id, text) ==
    /\ BagIn(id, summaries)
    /\ selectedNodeSummary' = text
    /\ loadingSummary' = FALSE
    /\ summaries' = summaries (-) SetToBag({id})
    /\ nodesMap' = IF Has(nodesMap, id)
                   THEN addNode(Store, id, [summary |-> text], NoEmbedding, FALSE).nodes
                   ELSE nodesMap
    /\ UNCHANGED <<apiKey, json, edges, embeddings, error, loadingIngest,
                   selectedNodeId, ragAnswer, ragContexts, loadingRag, ing, rag>>

(* The request for the node id gets its answer; requests in flight are a   *)
(* bag of node identifiers, answered in any order.                         *)
summaryGenerated(id, text) ==
    /\ BagIn(id, summaries)
    /\ selectedNodeSummary' = text
    /\ loadingSummary' = FALSE
    /\ summaries' = summaries (-) SetToBag({id})
    /\ UNCHANGED <<apiKey, json, nodesMap, edges, embeddings, error, loadingIngest,
                   selectedNodeId, ragAnswer, ragContexts, loadingRag, ing, rag>>

summaryFailedKeepsLoading(id) ==
    /\ BagIn(id, summaries)
    /\ selectedNodeSummary' = SummaryFallback
    /\ summaries' = summaries (-) SetToBag({id})
    /\ UNCHANGED <<apiKey, json, nodesMap, edges, embeddings, error, loadingIngest,
                   selectedNodeId, loadingSummary, ragAnswer, ragContexts, loadingRag,
                   ing, rag>>

summaryFailed(id) ==
    /\ BagIn(id, summaries)
    /\ selectedNodeSummary' = SummaryFallback
    /\ loadingSummary' = FALSE
    /\ summaries' = summaries (-) SetToBag({id})
    /\ UNCHANGED <<apiKey, json, nodesMap, edges, embeddings, error, loadingIngest,
                   selectedNodeId, ragAnswer, ragContexts, loadingRag, ing, rag>>

--------------------------------------------------------------------------
(* RAG QA *)

Queries == {"", " ", "why"}

(* scored.sort((a, b) => b.score - a.score): stable, descending *)
RECURSIVE insertSorted(_, _)
insertSorted(sorted, x) ==
    IF sorted = <<>> THEN <<x>>
    ELSE IF RatLess(Head(sorted).score, x.score) THEN <<x>> \o sorted
    ELSE <<Head(sorted)>> \o insertSorted(Tail(sorted), x)

sortByScoreUnsorted(scored) == scored

RECURSIVE sortByScore(_)
sortByScore(scored) ==
    IF scored = <<>> THEN <<>>
    ELSE insertSorted(sortByScore(SubSeq(scored, 1, Len(scored) - 1)),
                      scored[Len(scored)])

slice(s, n) == SubSeq(s, 1, Min(n, Len(s)))

RECURSIVE resolveAll(_, _)
resolveAll(nodes, scored) ==
    IF scored = <<>> THEN <<>>
    ELSE IF ~Has(nodes, Head(scored).id) THEN resolveAll(nodes, Tail(scored))
    ELSE <<[node |-> Get(nodes, Head(scored).id), similarity |-> Head(scored).score]>>
         \o resolveAll(nodes, Tail(scored))

(* searchGraph after its await: ids and nodes are the values read before   *)
(* the await, embs is embeddingsRef.current now.                           *)
searchThrows(ids, embs) == \E i \in 1..Len(ids) : ~Has(embs, ids[i])

searchResults(ids, embs, nodes, qEmb, topK) ==
    LET scored == [i \in 1..Len(ids) |->
                      [id |-> ids[i], score |-> cosineSim(qEmb, Get(embs, ids[i]).vec)]]
    IN  resolveAll(nodes, slice(sortByScore(scored), topK))

RagIdle == [pc |-> "idle", ids |-> <<>>, nodes |-> <<>>, contexts |-> <<>>, topK |-> 0,
            indexSize |-> 0]

(* Click on "Run Graph RAG" with the question q; searchGraph is called     *)
(* with topK.                                                              *)
ragQueryWith(q, topK) ==
    /\ ~loadingRag
    /\ IF ~apiKey
       THEN /\ error' = MissingKeyError
            /\ UNCHANGED <<loadingRag, ragAnswer, ragContexts, rag>>
       ELSE IF trim(Chars(q)) = <<>>
       THEN UNCHANGED <<error, loadingRag, ragAnswer, ragContexts, rag>>
       ELSE /\ loadingRag' = TRUE
            /\ ragAnswer' = ""
            /\ ragContexts' = <<>>
            /\ error' = error
            /\ LET ids == Keys(embeddings)
               IN  IF Len(ids) = 0
                   THEN rag' = [RagIdle EXCEPT !.pc = "gen", !.topK = topK]
                   ELSE rag' = [pc |-> "embed", ids |-> ids, nodes |-> nodesMap,
                                contexts |-> <<>>, topK |-> topK, indexSize |-> 0]
    /\ UNCHANGED <<apiKey, json, nodesMap, edges, embeddings, loadingIngest,
                   selectedNodeId, selectedNodeSummary, loadingSummary, ing, summaries>>

submitRagQuery(q) == ragQueryWith(q, RagTopK)

ragFallbackPublishesContexts ==
    /\ ragAnswer' = RagFallback
    /\ ragContexts' = rag.contexts
    /\ loadingRag' = FALSE
    /\ rag' = RagIdle
    /\ UNCHANGED <<apiKey, json, nodesMap, edges, embeddings, error, loadingIngest,
                   selectedNodeId, selectedNodeSummary, loadingSummary,
                   ing, summaries>>

ragFallback ==
    /\ ragAnswer' = RagFallback
    /\ loadingRag' = FALSE
    /\ rag' = RagIdle
    /\ UNCHANGED <<apiKey, json, nodesMap, edges, embeddings, error, loadingIngest,
                   selectedNodeId, selectedNodeSummary, loadingSummary, ragContexts,
                   ing, summaries>>

(* getEmbedding(query) returns qEmb: the rest of searchGraph, then the     *)
(* prompt and the call of gptPlainText.                                    *)
ragEmbedded(qEmb) ==
    /\ rag.pc = "embed"
    /\ IF searchThrows(rag.ids, embeddings)
       THEN ragFallback
       ELSE /\ rag' = [rag EXCEPT !.pc = "gen",
                           !.contexts = searchResults(rag.ids, embeddings, rag.nodes,
                                                      qEmb, rag.topK),
                           !.indexSize = Len(embeddings)]
            /\ UNCHANGED <<apiKey, json, nodesMap, edges, embeddings, error,
                           loadingIngest, selectedNodeId, selectedNodeSummary,
                           loadingSummary, ragAnswer, ragContexts, loadingRag,
                           ing, summaries>>

ragEmbedFailed ==
    /\ rag.pc = "embed"
    /\ ragFallback

ragGenerated(text) ==
    /\ rag.pc = "gen"
    /\ ragAnswer' = text
    /\ ragContexts' = rag.contexts
    /\ loadingRag' = FALSE
    /\ rag' = RagIdle
    /\ UNCHANGED <<apiKey, json, nodesMap, edges, embeddings, error, loadingIngest,
                   selectedNodeId, selectedNodeSummary, loadingSummary, ing, summaries>>

ragGenFailed ==
    /\ rag.pc = "gen"
    /\ ragFallback

--------------------------------------------------------------------------
(* Specifications *)

NoCalc == [pc |-> "none", a |-> <<>>, b |-> <<>>, result |-> Zero]

NoHist == [started |-> FALSE, runs |-> 0, store |-> EmptyStore, metrics |-> <<>>]

InitApp ==
    /\ apiKey \in BOOLEAN
    /\ json = DefaultJson
    /\ nodesMap = <<>>
    /\ edges = <<>>
    /\ embeddings = <<>>
    /\ error = ""
    /\ loadingIngest = FALSE
    /\ selectedNodeId = NoNode
    /\ selectedNodeSummary = ""
    /\ loadingSummary = FALSE
    /\ ragAnswer = ""
    /\ ragContexts = <<>>
    /\ loadingRag = FALSE
    /\ ing = Idle
    /\ rag = RagIdle
    /\ summaries = EmptyBag
    /\ oracle = {}
    /\ hist = NoHist

Init == InitApp /\ calc = NoCalc

UiInputs == InputsOver(UiPaperRecs, UiEventRecs, UiPolicyRecs, MaxUiRecords)

UiVectors == {<<1, 0>>, <<0, 1>>}
IngestVectors == {<<1, 0>>, <<0, 1>>}

Observed == UNCHANGED <<oracle, hist, calc>>

Ingest == (\E inp \in UiInputs : ingestAll(inp)) /\ Observed
IngestEmbedded == (\E emb \in UiVectors : ingestEmbedded(emb)) /\ Observed
IngestFailed == ingestFailed /\ Observed
NodeClick == (\E id \in KeySet(nodesMap) : handleNodeClick(id)) /\ Observed
SummaryGenerated ==
    (\E id \in BagToSet(summaries) : summaryGenerated(id, SummaryText(id))) /\ Observed
SummaryFailed == (\E id \in BagToSet(summaries) : summaryFailed(id)) /\ Observed
RagQuery == (\E q \in Queries : submitRagQuery(q)) /\ Observed
RagEmbedded == (\E qEmb \in UiVectors : ragEmbedded(qEmb)) /\ Observed
RagEmbedFailed == ragEmbedFailed /\ Observed
RagGenerated == (\E t \in GenTexts : ragGenerated(t)) /\ Observed
RagGenFailed == ragGenFailed /\ Observed

Next ==
    \/ Ingest
    \/ IngestEmbedded
    \/ IngestFailed
    \/ NodeClick
    \/ SummaryGenerated
    \/ SummaryFailed
    \/ RagQuery
    \/ RagEmbedded
    \/ RagEmbedFailed
    \/ RagGenerated
    \/ RagGenFailed

Spec == Init /\ [][Next]_vars

--------------------------------------------------------------------------
(* Ingestion alone, over all inputs of at most MaxRecords records, with a  *)
(* deterministic embedding provider: oracle holds the answer given for     *)
(* each text so far, and a text asked again gets the same answer.  hist    *)
(* keeps the store and the metric snapshot of the first successful run of  *)
(* the input, and counts the successful runs.                              *)

Inputs == InputsOver(PaperRecs, EventRecs, PolicyRecs, MaxRecords)

Answered(text) == \E a \in oracle : a.text = text
AnswerOf(text) == (CHOOSE a \in oracle : a.text = text).vec

RunSucceeded == ing'.pc = "idle" /\ error' = "" /\ apiKey

Record ==
    hist' = IF ~RunSucceeded THEN [hist EXCEPT !.started = TRUE]
            ELSE IF hist.runs = 0
            THEN [started |-> TRUE, runs |-> 1,
                  store |-> [nodes |-> nodesMap', edges |-> edges', embs |-> embeddings'],
                  metrics |-> metrics(nodesMap', edges')]
            ELSE [hist EXCEPT !.runs = 2]

FirstIngest ==
    /\ ~hist.started
    /\ \E inp \in Inputs : ingestAll(inp)
    /\ Record
    /\ UNCHANGED <<oracle, calc>>

Rebuild ==
    /\ hist.started
    /\ hist.runs < 2
    /\ ingestAll(json)
    /\ Record
    /\ UNCHANGED <<oracle, calc>>

DetEmbedded ==
    /\ ing.pc = "embed"
    /\ LET text == TextOf(PhaseOrder[ing.phase], Coll(json, ing.phase)[ing.idx])
       IN  \E emb \in IngestVectors :
              /\ Answered(text) => emb = AnswerOf(text)
              /\ ingestEmbedded(emb)
              /\ oracle' = oracle \cup {[text |-> text, vec |-> emb]}
    /\ Record
    /\ UNCHANGED calc

DetFailed ==
    /\ ingestFailed
    /\ Record
    /\ UNCHANGED <<oracle, calc>>

NextIngest == FirstIngest \/ Rebuild \/ DetEmbedded \/ DetFailed

SpecIngest == Init /\ [][NextIngest]_vars

--------------------------------------------------------------------------
(* Retrieval: the demo input is ingested (and rebuilt) with any embedding  *)
(* vectors, and searchGraph is called with every topK up to MaxK as well   *)
(* as through submitRagQuery.                                              *)

SearchIngest == ingestAll(DefaultJson) /\ Observed
SearchIngestEmbedded == (\E emb \in Vectors : ingestEmbedded(emb)) /\ Observed
SearchQuery == (\E topK \in 1..MaxK : ragQueryWith("why", topK)) /\ Observed
SearchEmbedded == (\E qEmb \in Vectors : ragEmbedded(qEmb)) /\ Observed

NextSearch ==
    \/ SearchIngest
    \/ SearchIngestEmbedded
    \/ IngestFailed
    \/ SearchQuery
    \/ RagQuery
    \/ SearchEmbedded
    \/ RagEmbedFailed
    \/ RagGenerated
    \/ RagGenFailed

SpecSearch == Init /\ [][NextSearch]_vars

--------------------------------------------------------------------------
(* Progress: one event is ingested (and rebuilt), its nodes are clicked    *)
(* and the question "why" is asked, in any interleaving.  Every provider   *)
(* call returns or fails: the fetch of getEmbedding or gptPlainText a      *)
(* handler awaits is settled, whatever else happens.                       *)

LiveJson ==
    [papers |-> Parsed(<<>>),
     events |-> Parsed(<<[external_id |-> "1", description |-> "Outage",
                          region |-> "X", severity |-> 90]>>),
     policies |-> Parsed(<<>>)]

LiveVector == <<1, 0>>

LiveIngest == ingestAll(LiveJson) /\ Observed
LiveIngestEmbedded == ingestEmbedded(LiveVector) /\ Observed
LiveQuery == submitRagQuery("why") /\ Observed
LiveRagEmbedded == ragEmbedded(LiveVector) /\ Observed

NextLive ==
    \/ LiveIngest
    \/ LiveIngestEmbedded
    \/ IngestFailed
    \/ NodeClick
    \/ SummaryGenerated
    \/ SummaryFailed
    \/ LiveQuery
    \/ LiveRagEmbedded
    \/ RagEmbedFailed
    \/ RagGenerated
    \/ RagGenFailed

ProvidersRespond ==
    /\ WF_vars(IngestFailed \/ LiveIngestEmbedded)
    /\ WF_vars(RagEmbedFailed \/ LiveRagEmbedded)
    /\ WF_vars(RagGenFailed \/ RagGenerated)
    /\ WF_vars(SummaryFailed \/ SummaryGenerated)

SpecLive == Init /\ [][NextLive]_vars /\ ProvidersRespond

--------------------------------------------------------------------------
(* Vector math alone: cosineSim is called once on two vectors with small   *)
(* integer components, of equal or different lengths, and its result is    *)
(* kept as the double the call returns.                                    *)

MathVectors == {<<>>, <<0>>, <<0, 0>>, <<1>>, <<1, 1>>, <<1, 2>>, <<2, 1>>, <<-3, 4>>}

InitMath ==
    /\ InitApp
    /\ calc \in [pc : {"args"}, a : MathVectors, b : MathVectors, result : {Zero}]

CosineSim ==
    /\ calc.pc = "args"
    /\ calc' = [calc EXCEPT !.pc = "done", !.result = cosineSim64(calc.a, calc.b)]
    /\ UNCHANGED <<apiKey, json, nodesMap, edges, embeddings, error, loadingIngest,
                   selectedNodeId, selectedNodeSummary, loadingSummary,
                   ragAnswer, ragContexts, loadingRag, ing, rag, summaries,
                   oracle, hist>>

NextMath == CosineSim

SpecMath == InitMath /\ [][NextMath]_vars

--------------------------------------------------------------------------
(* Properties *)

AllRisks == metrics(nodesMap, edges)
InUnit(r) == 0 <= r.num /\ r.num <= r.den

StoreCleared ==
    /\ nodesMap' = <<>>
    /\ edges' = <<>>
    /\ embeddings' = <<>>
DerivedCleared ==
    /\ selectedNodeId' = NoNode
    /\ selectedNodeSummary' = ""
    /\ ragAnswer' = ""
    /\ ragContexts' = <<>>
StoreUnchanged == UNCHANGED <<nodesMap, edges, embeddings>>

(* C1: a query that found the embedding index empty has an empty context   *)
(* list and awaits neither getEmbedding nor gptPlainText.                  *)
C1_EmptyIndexCallsNoProvider ==
    (rag.pc # "idle" /\ rag.ids = <<>>) =>
        (rag.contexts = <<>> /\ rag.pc \notin {"embed", "gen"})

(* C2: every degree_centrality and every risk_score of the metric snapshot *)
(* lies in [0,1].                                                          *)
C2_RiskInUnitInterval ==
    \A i \in 1..Len(AllRisks) :
        InUnit(AllRisks[i].degree_centrality) /\ InUnit(AllRisks[i].risk_score)

(* C3: every identifier with a stored embedding is the identifier of an    *)
(* entity of the entity store.                                             *)
C3_EmbeddingsHaveEntities == KeySet(embeddings) \subseteq KeySet(nodesMap)

C3_Witness ==
    /\ Len(embeddings) > 0
    /\ \E i \in 1..Len(nodesMap) :
          nodesMap[i].type = "Location" /\ ~Has(embeddings, nodesMap[i].id)

(* C4: handshake: the degrees the metric engine computes sum to twice the  *)
(* number of relationships.                                                *)
C4_Handshake ==
    SumSeq([i \in 1..Len(nodesMap) |-> degree(nodesMap, edges, nodesMap[i].id)])
        = 2 * Len(edges)

C4_Witness ==
    /\ Len(edges) >= 2
    /\ edges[1] = edges[2]

(* C5: the step in which an embedding call of ingestAll fails adds nothing *)
(* to the store and removes nothing from it, records the error, ends the   *)
(* run without a further embedding call, and while no run is in flight     *)
(* the store changes only by the start of a new run.                       *)
C5_FailFastNoRollback ==
    [][/\ ingestFailed =>
            /\ StoreUnchanged
            /\ ing'.pc = "idle"
            /\ error' # ""
            /\ ~loadingIngest'
       /\ (ing.pc = "idle" /\ ~StoreUnchanged) => ingestAll(json')
      ]_vars

C5_Witness ==
    /\ ing.pc = "idle"
    /\ error = EmbeddingError
    /\ Len(nodesMap) > 0
    /\ Len(embeddings) > 0
    /\ Len(embeddings) < Total(json)

(* C6: with a deterministic embedding provider, a later successful run of  *)
(* the same input leaves the entities, the embeddings, the relationship    *)
(* list and the metric snapshot of its first successful run.               *)
C6_IdempotentRebuild ==
    (hist.runs >= 2 /\ ing.pc = "idle" /\ error = "") =>
        /\ nodesMap = hist.store.nodes
        /\ embeddings = hist.store.embs
        /\ edges = hist.store.edges
        /\ metrics(nodesMap, edges) = hist.metrics

C6_Witness ==
    /\ hist.runs >= 2
    /\ ing.pc = "idle"
    /\ error = ""
    /\ Len(embeddings) >= 2
    /\ Len(edges) >= 1

(* C7: the contexts searchGraph returns are at most min(topK, number of    *)
(* stored embeddings) and in non-increasing order of similarity; over an   *)
(* empty index it returns the empty sequence and does not throw.           *)
C7_TopK ==
    /\ rag.pc = "gen" =>
          /\ Len(rag.contexts) <= Min(rag.topK, rag.indexSize)
          /\ Len(rag.contexts) <= Len(rag.ids)
          /\ \A i \in 1..Len(rag.contexts) : \A k \in i..Len(rag.contexts) :
                 RatLeq(rag.contexts[k].similarity, rag.contexts[i].similarity)
    /\ (rag.pc # "idle" /\ rag.ids = <<>>) => (rag.pc = "gen" /\ rag.contexts = <<>>)

C7_Witness ==
    /\ rag.pc = "gen"
    /\ rag.topK < Len(rag.ids)
    /\ Len(rag.contexts) = rag.topK
    /\ Len(rag.contexts) >= 2
    /\ RatLess(rag.contexts[2].similarity, rag.contexts[1].similarity)
    /\ rag.contexts[1].node.id # rag.ids[1]

(* C8: a failed RAG query sets the answer to the fallback message, leaves  *)
(* the published context list empty and ends the query; a failed summary   *)
(* request publishes its own fallback message; neither touches the error   *)
(* state.                                                                  *)
C8_ProviderFailureFallback ==
    [][/\ (ragEmbedFailed \/ ragGenFailed \/ (rag.pc = "embed" /\ rag'.pc = "idle")) =>
            /\ ragAnswer' = RagFallback
            /\ ragContexts' = <<>>
            /\ ~loadingRag'
            /\ rag'.pc = "idle"
            /\ error' = error
       /\ (\E id \in BagToSet(summaries) : summaryFailed(id)) =>
            /\ selectedNodeSummary' = SummaryFallback
            /\ ~loadingSummary'
            /\ error' = error
      ]_vars

C8_Witness ==
    /\ ragAnswer = RagFallback
    /\ ragContexts = <<>>
    /\ selectedNodeSummary = SummaryFallback
    /\ Len(embeddings) > 0

(* C9: while ingestAll waits for the embedding of a record, every record   *)
(* before it is upserted with its embedding, no entity of a later          *)
(* collection exists, and no MENTIONS_EVENT relationship exists before     *)
(* the last policy is upserted.                                            *)
AllIn(ids) == \A id \in ids : Has(nodesMap, id) /\ Has(embeddings, id)
TypesIn(T) == \A i \in 1..Len(nodesMap) : nodesMap[i].type \in T
Waiting == IF ing.pc = "embed" THEN PhaseOrder[ing.phase] ELSE "none"
Earlier(recs) == {recs[i] : i \in 1..(ing.idx - 1)}

C10_ResetAtomic ==
    [][/\ \/ (StoreCleared /\ DerivedCleared)
          \/ ~(apiKey /\ \E inp \in UiInputs : ingestAll(inp))
       /\ \/ (nodesMap # <<>> /\ nodesMap' = <<>>)
          \/ (edges # <<>> /\ edges' = <<>>)
          \/ (embeddings # <<>> /\ embeddings' = <<>>)
          => (StoreCleared /\ DerivedCleared)
      ]_vars

C10_Witness ==
    /\ ing.pc = "embed"
    /\ nodesMap = <<>> /\ edges = <<>> /\ embeddings = <<>>
    /\ rag.pc = "gen"
    /\ rag.contexts # <<>>
    /\ BagCardinality(summaries) > 0
    /\ selectedNodeId = NoNode

(* C11: a step of a RAG query or of a node summary leaves the entity       *)
(* store, the relationship list and the embedding index as they were; the  *)
(* three change only in a step of ingestAll (its reset included).  The     *)
(* metric snapshot is a function of the store and has no state.            *)
C11_ReadOnlyQueries ==
    [][/\ (rag' # rag \/ summaries' # summaries \/ ragAnswer' # ragAnswer
             \/ (selectedNodeSummary' # selectedNodeSummary /\ selectedNodeId' # NoNode))
            => \/ StoreUnchanged
               \/ \E inp \in UiInputs : ingestAll(inp)
       /\ ~StoreUnchanged =>
            \/ \E inp \in UiInputs : ingestAll(inp)
            \/ \E emb \in UiVectors : ingestEmbedded(emb)
      ]_vars

C11_Witness ==
    /\ Len(nodesMap) > 0
    /\ Len(embeddings) > 0
    /\ ragAnswer \in GenTexts
    /\ ragContexts # <<>>
    /\ selectedNodeId # NoNode
    /\ selectedNodeSummary = SummaryText(selectedNodeId)
    /\ metrics(nodesMap, edges) # <<>>

(* C12: addNode with an identifier the store holds keeps the number of     *)
(* entities, gives the entity every field of the new attributes and keeps  *)
(* every other field it had; with a new identifier it adds one entity; in  *)
(* both cases every other entity is unchanged, and no identifier occurs    *)
(* twice in the store.  After a successful run a paper entity carries the  *)
(* title of the last record with its identifier.                           *)
UpsertIds == {"paper:1", "location:X", "policy:new"}
UpsertAttrs == {NoAttrs,
                [title |-> "Solar"],
                [type |-> "Location", name |-> "X"],
                [type |-> "Policy", jurisdiction |-> Undefined, severity |-> 90]}

UpsertedAsClaimed(before, after, id, attrs) ==
    LET held == Has(before, id)
        old == IF held THEN Get(before, id) ELSE NoAttrs
        at == {i \in 1..Len(after) : after[i].id = id}
    IN  /\ Len(after) = (IF held THEN Len(before) ELSE Len(before) + 1)
        /\ Cardinality(at) = 1
        /\ \A i \in 1..Len(before) : before[i].id # id => after[i] = before[i]
        /\ \A i \in at :
               /\ \A k \in DOMAIN attrs : after[i][k] = attrs[k]
               /\ \A k \in (DOMAIN old) \ (DOMAIN attrs) :
                      k \in DOMAIN after[i] /\ after[i][k] = old[k]

LastTitle(recs, id) ==
    recs[CHOOSE i \in 1..Len(recs) :
            /\ PaperId(recs[i]) = id
            /\ \A k \in (i + 1)..Len(recs) : PaperId(recs[k]) # id].title

C12_UpsertMerges ==
    /\ \A i, k \in 1..Len(nodesMap) : nodesMap[i].id = nodesMap[k].id => i = k
    /\ \A id \in UpsertIds, attrs \in UpsertAttrs :
          UpsertedAsClaimed(nodesMap,
              addNode(Store, id, attrs, NoEmbedding, FALSE).nodes, id, attrs)
    /\ (ing.pc = "idle" /\ error = "" /\ hist.runs >= 1) =>
          \A i \in 1..Len(nodesMap) :
              nodesMap[i].type = "Paper" =>
                  nodesMap[i].title = LastTitle(json.papers.recs, nodesMap[i].id)

C12_Witness ==
    /\ ing.pc = "idle" /\ error = "" /\ hist.runs >= 1
    /\ Len(json.papers.recs) = 2
    /\ json.papers.recs[1].id = "1" /\ json.papers.recs[2].id = "1"
    /\ json.papers.recs[1].title = "BLACKOUTS"
    /\ Len(nodesMap) = 1
    /\ nodesMap[1].title = "Solar"
    /\ nodesMap[1].type = "Paper"

(* C13: in the metric snapshot degree_centrality is the number of          *)
(* relationship ends at the entity over max(N - 1, 1), and risk_score is   *)
(* half the base risk plus half the degree centrality, the base risk being *)
(* the severity of an Event (0.5 when the record has none) and 0.3 for     *)
(* every other kind.  One Event with severity 0.9 and region X gives 2     *)
(* entities, 1 relationship, event degree 1, centrality 1 and risk 0.95.   *)
RatEq(a, b) == a.num * b.den = b.num * a.den

Ends(id) ==
    Cardinality({i \in 1..Len(edges) : edges[i].source = id})
  + Cardinality({i \in 1..Len(edges) : edges[i].target = id})

ClaimedBase(n) ==
    IF n.type # "Event" THEN 30
    ELSE IF "severity" \in DOMAIN n /\ n.severity # NoSeverity THEN n.severity
    ELSE 50

OneSevereEvent ==
    /\ ing.pc = "idle" /\ error = "" /\ hist.runs >= 1
    /\ json.papers.recs = <<>> /\ json.policies.recs = <<>>
    /\ Len(json.events.recs) = 1
    /\ json.events.recs[1].severity = 90
    /\ json.events.recs[1].region = "X"

C13_MetricFormulas ==
    /\ \A i \in 1..Len(nodesMap) :
          LET n == nodesMap[i]
              m == AllRisks[i]
              dc == Rat(Ends(n.id), Max(Len(nodesMap) - 1, 1))
          IN  /\ m.id = n.id
              /\ RatEq(m.degree_centrality, dc)
              /\ 2 * 100 * m.risk_score.num * dc.den
                     = m.risk_score.den * (ClaimedBase(n) * dc.den + 100 * dc.num)
              /\ n.type = "Event" => n.severity \in {50, 90}
    /\ OneSevereEvent =>
          /\ Len(nodesMap) = 2
          /\ Len(edges) = 1
          /\ LET m == AllRisks[Pos(nodesMap, EventId(json.events.recs[1]))]
             IN  /\ degree(nodesMap, edges, m.id) = 1
                 /\ RatEq(m.degree_centrality, Rat(1, 1))
                 /\ RatEq(m.risk_score, Rat(95, 100))

C13_Witness ==
    /\ OneSevereEvent
    /\ \E i \in 1..Len(nodesMap) : nodesMap[i].type = "Location"

(* C14: the contexts searchGraph returns are entities of the store the     *)
(* query read, in non-increasing order of similarity, and a query that     *)
(* waits for its embedding can finish searchGraph without an exception     *)
(* whatever has happened to the store and the index meanwhile: an          *)
(* identifier that no longer resolves is left out.                         *)
C14_DriftTolerated ==
    /\ rag.pc = "gen" =>
          /\ \A i \in 1..Len(rag.contexts) : Has(rag.nodes, rag.contexts[i].node.id)
          /\ \A i \in 1..Len(rag.contexts) : \A k \in i..Len(rag.contexts) :
                 RatLeq(rag.contexts[k].similarity, rag.contexts[i].similarity)
    /\ rag.pc = "embed" => ~searchThrows(rag.ids, embeddings)

(* C15: a call of cosineSim in which one of the vectors has only zero      *)
(* components (or none) returns exactly 0, and a call with the same        *)
(* nonzero vector twice returns exactly 1.                                 *)
ZeroNorm(v) == \A i \in 1..Len(v) : v[i] = 0

C15_CosineSimExact ==
    calc.pc = "done" =>
        /\ (ZeroNorm(calc.a) \/ ZeroNorm(calc.b)) => calc.result = Zero
        /\ (calc.a = calc.b /\ ~ZeroNorm(calc.a)) => calc.result = One

(* C16: after every step of an ingestion run, completed or aborted, both   *)
(* endpoints of every relationship are identifiers of entities of the      *)
(* store; a relationship a step appends joins entities the store held      *)
(* before the step or the entities of the record the step ingests.         *)
Endpoints(e) == {e.source, e.target}

PendingIds ==
    IF ing.pc # "embed" THEN {}
    ELSE LET kind == PhaseOrder[ing.phase]
             r == Coll(json, ing.phase)[ing.idx]
         IN  CASE kind = "papers" -> {PaperId(r)}
               [] kind = "events" -> {EventId(r), LocationId(r.region)}
               [] kind = "policies" -> {PolicyId(r), LocationId(r.jurisdiction)}

C16_EndpointsRegistered ==
    [][/\ \A i \in 1..Len(edges') : Endpoints(edges'[i]) \subseteq KeySet(nodesMap')
       /\ (ing.pc = "embed" /\ ~StoreUnchanged) =>
             /\ SubSeq(edges', 1, Len(edges)) = edges
             /\ \A i \in (Len(edges) + 1)..Len(edges') :
                    Endpoints(edges'[i]) \subseteq KeySet(nodesMap) \cup PendingIds
      ]_vars

C16_Witness ==
    /\ ing.pc = "idle"
    /\ error = EmbeddingError
    /\ Len(edges) >= 1
    /\ Endpoints(edges[1]) \subseteq KeySet(nodesMap)
    /\ Len(json.policies.recs) >= 1

(* C17: after a successful run the OCCURS_IN relationships are one per     *)
(* event record with a region, from the event to the Location of the       *)
(* region, and the APPLIES_TO relationships one per policy record with a   *)
(* jurisdiction, from the policy to its Location; the Location entities    *)
(* are one per region or jurisdiction named by a record and no other; and  *)
(* in every state no Location has an embedding.                            *)
Succeeded == ing.pc = "idle" /\ error = "" /\ hist.runs >= 1

Located(recs, place(_)) == {i \in 1..Len(recs) : Truthy(place(recs[i]))}
RegionOf(e) == e.region
JurisdictionOf(p) == p.jurisdiction

EdgesOf(relation) == {i \in 1..Len(edges) : edges[i].relation = relation}

Link(source, place, relation) ==
    [source |-> source, target |-> LocationId(place), relation |-> relation]

Occurrences(edge) == Cardinality({i \in 1..Len(edges) : edges[i] = edge})

C17_LocationLinks ==
    /\ \A i \in 1..Len(nodesMap) :
          nodesMap[i].type = "Location" => ~Has(embeddings, nodesMap[i].id)
    /\ Succeeded =>
          LET events == json.events.recs
              policies == json.policies.recs
              places == {events[i].region : i \in Located(events, RegionOf)}
                        \cup {policies[i].jurisdiction :
                                 i \in Located(policies, JurisdictionOf)}
          IN  /\ \A i \in Located(events, RegionOf) :
                    /\ Has(nodesMap, LocationId(events[i].region))
                    /\ Get(nodesMap, LocationId(events[i].region)).type = "Location"
                    /\ Link(EventId(events[i]), events[i].region, "OCCURS_IN")
                           \in Range(edges)
              /\ \A i \in Located(policies, JurisdictionOf) :
                    /\ Has(nodesMap, LocationId(policies[i].jurisdiction))
                    /\ Get(nodesMap, LocationId(policies[i].jurisdiction)).type
                           = "Location"
                    /\ Link(PolicyId(policies[i]), policies[i].jurisdiction,
                            "APPLIES_TO") \in Range(edges)
              /\ \A i \in EdgesOf("OCCURS_IN") :
                    Occurrences(edges[i]) = Cardinality({k \in Located(events, RegionOf) :
                        Link(EventId(events[k]), events[k].region, "OCCURS_IN")
                            = edges[i]})
              /\ \A i \in EdgesOf("APPLIES_TO") :
                    Occurrences(edges[i]) =
                        Cardinality({k \in Located(policies, JurisdictionOf) :
                            Link(PolicyId(policies[k]), policies[k].jurisdiction,
                                 "APPLIES_TO") = edges[i]})
              /\ {nodesMap[i].id : i \in {k \in 1..Len(nodesMap) :
                                              nodesMap[k].type = "Location"}}
                     = {LocationId(x) : x \in places}
              /\ Cardinality({i \in 1..Len(nodesMap) : nodesMap[i].type = "Location"})
                     = Cardinality(places)

C17_Witness ==
    /\ Succeeded
    /\ Len(json.events.recs) = 1 /\ Truthy(json.events.recs[1].region)
    /\ Len(json.policies.recs) = 1
    /\ json.policies.recs[1].jurisdiction = json.events.recs[1].region
    /\ Len(nodesMap) = 3
    /\ Len(edges) = 2
    /\ Len(embeddings) = 2

(* C18: after a successful run there is one MENTIONS_EVENT relationship,   *)
(* from the paper to the event, per pair of a paper record whose title     *)
(* contains "blackout" and an event record whose description contains      *)
(* "outage" in any letter case, and no other; a run that is waiting for    *)
(* an embedding or was aborted has none.  Of the titles of the model       *)
(* BLACKOUTS contains the marker and Solar does not; of the descriptions   *)
(* Outage does and storm does not.                                         *)
TitlesWithMarker == {"BLACKOUTS"}
DescriptionsWithMarker == {"Outage"}

MarkedPairs ==
    {pair \in (1..Len(json.papers.recs)) \X (1..Len(json.events.recs)) :
        /\ json.papers.recs[pair[1]].title \in TitlesWithMarker
        /\ json.events.recs[pair[2]].description \in DescriptionsWithMarker}

Mention(pair) ==
    [source |-> PaperId(json.papers.recs[pair[1]]),
     target |-> EventId(json.events.recs[pair[2]]),
     relation |-> "MENTIONS_EVENT"]

C18_DerivedLinks ==
    /\ Succeeded =>
          /\ \A pair \in MarkedPairs : Mention(pair) \in Range(edges)
          /\ \A i \in EdgesOf("MENTIONS_EVENT") :
                Occurrences(edges[i])
                    = Cardinality({pair \in MarkedPairs : Mention(pair) = edges[i]})
    /\ (ing.pc = "embed" \/ error # "") => EdgesOf("MENTIONS_EVENT") = {}

C18_Witness ==
    /\ Succeeded
    /\ Cardinality(MarkedPairs) = 1
    /\ Cardinality(EdgesOf("MENTIONS_EVENT")) = 1
    /\ json.events.recs[1].region = "X"

(* C19: the metric snapshot of the store with its entities and its         *)
(* relationships taken in any other order gives every entity the same      *)
(* degree_centrality and the same risk_score.                              *)
MaxEntities == MaxRecords + 1
MaxEdges == MaxRecords + (MaxRecords * MaxRecords) \div 4

Orders == [n \in 0..Max(MaxEntities, MaxEdges) |->
              {f \in [1..n -> 1..n] : \A i, k \in 1..n : f[i] = f[k] => i = k}]

Reordered(s, f) == [i \in 1..Len(s) |-> s[f[i]]]

SnapshotOf(snapshot) ==
    {<<snapshot[i].id, snapshot[i].degree_centrality, snapshot[i].risk_score>> :
        i \in 1..Len(snapshot)}

C19_OrderIndependent ==
    /\ Len(nodesMap) <= MaxEntities
    /\ Len(edges) <= MaxEdges
    /\ LET snapshot == SnapshotOf(metrics(nodesMap, edges))
       IN  \A f \in Orders[Len(nodesMap)] :
               LET nodes == Reordered(nodesMap, f)
               IN  \A g \in Orders[Len(edges)] :
                       SnapshotOf(metrics(nodes, Reordered(edges, g))) = snapshot

C19_Witness ==
    /\ Succeeded
    /\ Len(nodesMap) >= 3
    /\ Len(edges) >= 2
    /\ edges[1] # edges[2]
    /\ \E i, k \in 1..Len(nodesMap) :
          AllRisks[i].degree_centrality # AllRisks[k].degree_centrality

(* C20: whenever a node is selected and a summary is stored, the summary   *)
(* is the text generated for the selected node or the failure message.     *)
C20_SummaryOfSelected ==
    (selectedNodeId # NoNode /\ selectedNodeSummary # "") =>
        selectedNodeSummary \in {SummaryText(selectedNodeId), SummaryFallback}

(* C21: in every state every entry of the published RAG context list       *)
(* (ragContexts) is about an entity of the entity store; a query that was  *)
(* waiting for a provider when ingestAll reset the graph publishes none of *)
(* the entities the reset removed.                                         *)
C21_ContextsInStore ==
    \A i \in 1..Len(ragContexts) : Has(nodesMap, ragContexts[i].node.id)

(* C22: loadingIngest is true exactly while a run of ingestAll waits for   *)
(* an embedding, and a step taken while it is true starts no run and       *)
(* resets nothing: the input of the run stays, and a step that changes the *)
(* store keeps every entity, relationship and embedding the store held,    *)
(* adds only entities and embeddings of the record the run waits on, and   *)
(* moves the run to a later record or to its end.                          *)
Position(run) == (run.phase * (MaxRecords + 1)) + run.idx

C22_SingleRun ==
    [][/\ loadingIngest <=> (ing.pc = "embed")
       /\ loadingIngest =>
             /\ json' = json
             /\ ing'.pc = "embed" => Position(ing') >= Position(ing)
             /\ ~StoreUnchanged =>
                   /\ KeySet(nodesMap) \subseteq KeySet(nodesMap')
                   /\ KeySet(nodesMap') \subseteq KeySet(nodesMap) \cup PendingIds
                   /\ SubSeq(edges', 1, Len(edges)) = edges
                   /\ \A i \in 1..Len(embeddings) :
                          /\ Has(embeddings', embeddings[i].id)
                          /\ embeddings[i].id \notin PendingIds =>
                                Get(embeddings', embeddings[i].id) = embeddings[i]
                   /\ KeySet(embeddings') \subseteq KeySet(embeddings) \cup PendingIds
                   /\ ing'.pc = "idle" \/ Position(ing') > Position(ing)
      ]_vars

C22_Witness ==
    /\ loadingIngest
    /\ hist.runs = 1
    /\ Len(nodesMap) >= 1
    /\ Len(embeddings) >= 1
    /\ ing.phase = 2

(* C23: when every provider call returns or fails, from every state a      *)
(* state is reached in which no run of ingestAll is waiting and            *)
(* loadingIngest is false, one in which no RAG query is waiting and        *)
(* loadingRag is false, and one in which loadingSummary is false: a flag   *)
(* that is set is cleared later on.  The step that ends a run, a query or  *)
(* a summary request, in success or in failure, leaves its flag false.     *)
C23_LoadingClears ==
    /\ [][/\ (ing.pc = "embed" /\ ing'.pc = "idle") => ~loadingIngest'
          /\ (rag.pc # "idle" /\ rag'.pc = "idle") => ~loadingRag'
          /\ BagCardinality(summaries') < BagCardinality(summaries)
                => ~loadingSummary'
         ]_vars
    /\ []<>(ing.pc = "idle" /\ ~loadingIngest)
    /\ []<>(rag.pc = "idle" /\ ~loadingRag)
    /\ []<>(~loadingSummary)

C23_Witness ==
    /\ ~loadingIngest /\ error = EmbeddingError
    /\ ~loadingRag /\ ragAnswer = RagFallback
    /\ ~loadingSummary /\ selectedNodeSummary = SummaryFallback
    /\ summaries = EmptyBag

(* C24: the store holds only items of the input of the last run that       *)
(* passed the API-key check, in every state and so when the run ends in    *)
(* success or in failure: every entity is the paper, event or policy of a  *)
(* record of the input or the Location of its region or jurisdiction,      *)
(* with the title or description of such a record; every embedding belongs *)
(* to a paper, event or policy of the input; every relationship joins an   *)
(* event or policy of the input to its Location or a paper of the input to *)
(* an event of the input; and after an input that fails to parse the store *)
(* is empty.                                                               *)
RunPapers == Range(json.papers.recs)
RunEvents == Range(json.events.recs)
RunPolicies == Range(json.policies.recs)

RunRecordIds ==
    {PaperId(p) : p \in RunPapers} \cup {EventId(e) : e \in RunEvents}
        \cup {PolicyId(p) : p \in RunPolicies}

RunLocationIds ==
    {LocationId(e.region) : e \in {x \in RunEvents : Truthy(x.region)}}
        \cup {LocationId(p.jurisdiction) :
                 p \in {x \in RunPolicies : Truthy(x.jurisdiction)}}

RunLinks ==
    {Link(EventId(e), e.region, "OCCURS_IN") : e \in RunEvents}
        \cup {Link(PolicyId(p), p.jurisdiction, "APPLIES_TO") : p \in RunPolicies}
        \cup {[source |-> PaperId(p), target |-> EventId(e),
               relation |-> "MENTIONS_EVENT"] : p \in RunPapers, e \in RunEvents}

C24_OnlyThisRun ==
    /\ KeySet(nodesMap) \subseteq RunRecordIds \cup RunLocationIds
    /\ KeySet(embeddings) \subseteq RunRecordIds
    /\ Range(edges) \subseteq RunLinks
    /\ \A i \in 1..Len(nodesMap) :
          LET n == nodesMap[i]
          IN  /\ n.type = "Paper" =>
                    \E p \in RunPapers : PaperId(p) = n.id /\ p.title = n.title
              /\ n.type = "Event" =>
                    \E e \in RunEvents : EventId(e) = n.id /\ e.description = n.summary
              /\ n.type = "Policy" =>
                    \E p \in RunPolicies :
                        PolicyId(p) = n.id /\ p.jurisdiction = n.jurisdiction
              /\ n.type = "Location" => n.id \in RunLocationIds
    /\ parseError(json) # "" =>
          nodesMap = <<>> /\ edges = <<>> /\ embeddings = <<>>

C24_Witness ==
    /\ ing.pc = "idle"
    /\ error = ""
    /\ KeySet(nodesMap) = {"paper:1"}
    /\ KeySet(embeddings) = {"paper:1"}
    /\ \E i \in 1..Len(ragContexts) : ragContexts[i].node.id = "event:1"

==========================================================================
